---- MODULE Spec2Model ----
(***************************************************************************)
(* Vocabulary highlight overlay of the reader's BookPane:                  *)
(* clearVocabularyHighlights, highlightVocabularyInDocument, the click     *)
(* handler that opens the vocab-tooltip popover, and the BookPane effect   *)
(* that runs them on vocabulary changes and on relocation timers.          *)
(***************************************************************************)
EXTENDS Integers, Sequences, FiniteSets, TLC

VARIABLES
    vocabulary,   \* aiState.vocabulary: sequence of VocabItem
    iframe,       \* tab.iframe: the current content window, or NoFrame
    rendition,    \* tab.rendition is set
    docs,         \* per content window: its document
    host,         \* window.document: the popover and the vocab-style-main element
    relocated,    \* handlers registered on rendition 'relocated' (closures)
    cleanup,      \* the cleanup function returned by the last run of the effect
    timers,       \* pending setTimeout(applyHighlights, 150) callbacks, in firing order
    last,         \* observation of the last step: its operation, the text nodes it scanned
    hist          \* SpecPass only: the operations run so far and the body each one left

vars == <<vocabulary, iframe, rendition, docs, host, relocated, cleanup, timers, last, hist>>

(***************************************************************************)
(* Characters and strings. A string is a sequence of one-character strings.*)
(***************************************************************************)
WordChars == {"a", "A", "b", "B"}

MetaChars == {".", "*", "+", "?", "^", "$", "{", "}", "(", ")", "|", "[", "]", "\\"}

IsWordChar(c) == c \in WordChars

IsSpace(c) == c = " "

ToLowerChar(c) == CASE c = "A" -> "a" [] c = "B" -> "b" [] OTHER -> c

toLowerCase(s) == [i \in 1..Len(s) |-> ToLowerChar(s[i])]

RECURSIVE TrimStart(_)
TrimStart(s) == IF s # <<>> /\ IsSpace(Head(s)) THEN TrimStart(Tail(s)) ELSE s

RECURSIVE TrimEnd(_)
TrimEnd(s) ==
    IF s # <<>> /\ IsSpace(s[Len(s)]) THEN TrimEnd(SubSeq(s, 1, Len(s) - 1)) ELSE s

trim(s) == TrimEnd(TrimStart(s))

(***************************************************************************)
(* DOM nodes of a content document's body.                                 *)
(***************************************************************************)
TextNode(t) == [kind |-> "text", tag |-> "#text", text |-> t, word |-> <<>>, kids |-> <<>>]

ElemNode(tag, kids) == [kind |-> "elem", tag |-> tag, text |-> <<>>, word |-> <<>>, kids |-> kids]

\* <span class="vocab-highlight" data-word=w>t</span>
SpanNode(t, w) ==
    [kind |-> "span", tag |-> "SPAN", text |-> <<>>, word |-> w, kids |-> <<TextNode(t)>>]

RECURSIVE textContent(_)
textContent(kids) ==
    IF kids = <<>> THEN <<>>
    ELSE LET n == Head(kids) IN
         (IF n.kind = "text" THEN n.text ELSE textContent(n.kids))
             \o textContent(Tail(kids))

\* doc.querySelectorAll('.vocab-highlight'), in document order
RECURSIVE querySpans(_)
querySpans(kids) ==
    IF kids = <<>> THEN <<>>
    ELSE LET n == Head(kids) IN
         (IF n.kind = "span" THEN <<n>> ELSE <<>>)
             \o (IF n.kind = "text" THEN <<>> ELSE querySpans(n.kids))
             \o querySpans(Tail(kids))

\* Node.normalize(): drops empty text nodes, merges adjacent text nodes, in the
\* whole subtree
RECURSIVE normalize(_)
normalize(kids) ==
    IF kids = <<>> THEN <<>>
    ELSE LET n == Head(kids)
             rest == normalize(Tail(kids))
         IN  IF n.kind = "text"
             THEN IF n.text = <<>> THEN rest
                  ELSE IF rest # <<>> /\ Head(rest).kind = "text"
                       THEN <<TextNode(n.text \o Head(rest).text)>> \o Tail(rest)
                       ELSE <<n>> \o rest
             ELSE <<[n EXCEPT !.kids = normalize(n.kids)]>> \o rest

\* clearKids with the replacement text taken from data-word instead of textContent
RECURSIVE clearKidsFromDataWord(_)
clearKidsFromDataWord(kids) ==
    LET r == [i \in 1..Len(kids) |->
                 LET n == kids[i] IN
                 IF n.kind = "span" THEN TextNode(n.word)
                 ELSE IF n.kind = "elem"
                      THEN [n EXCEPT !.kids = clearKidsFromDataWord(n.kids)]
                 ELSE n]
    IN  IF \E i \in 1..Len(kids) : kids[i].kind = "span" THEN normalize(r) ELSE r

\* clearKids with querySelector in place of querySelectorAll: the first highlight
\* span only, in document order, is replaced
RECURSIVE clearKidsFirstOnly(_)
clearKidsFirstOnly(kids) ==
    IF querySpans(kids) = <<>> THEN kids
    ELSE LET holds(i) == kids[i].kind = "span" \/ querySpans(kids[i].kids) # <<>>
             i == CHOOSE k \in 1..Len(kids) : holds(k) /\ \A j \in 1..(k - 1) : ~holds(j)
             n == kids[i]
         IN  IF n.kind = "span"
             THEN normalize([kids EXCEPT ![i] = TextNode(textContent(n.kids))])
             ELSE [kids EXCEPT ![i] = [n EXCEPT !.kids = clearKidsFirstOnly(n.kids)]]

\* clearVocabularyHighlights, on the body's children: every highlight span is
\* replaced by a text node carrying its textContent, and the parent of every
\* replaced span is normalized
RECURSIVE clearKids(_)
clearKids(kids) ==
    LET r == [i \in 1..Len(kids) |->
                 LET n == kids[i] IN
                 IF n.kind = "span" THEN TextNode(textContent(n.kids))
                 ELSE IF n.kind = "elem" THEN [n EXCEPT !.kids = clearKids(n.kids)]
                 ELSE n]
    IN  IF \E i \in 1..Len(kids) : kids[i].kind = "span" THEN normalize(r) ELSE r

(***************************************************************************)
(* The matcher: new RegExp(`\\b(${pattern})\\b`, 'gi').  A pattern is the   *)
(* list of alternatives, each a sequence of atoms; an escaped atom matches *)
(* its character literally, an unescaped "." matches any character, any    *)
(* other unescaped character matches itself ignoring case.                 *)
(***************************************************************************)
Atom(esc, ch) == [esc |-> esc, ch |-> ch]

\* escapeRegExp that returns the string as it is
escapeRegExpNothing(str) == [i \in 1..Len(str) |-> Atom(FALSE, str[i])]

escapeRegExp(str) ==
    [i \in 1..Len(str) |-> IF str[i] \in MetaChars THEN Atom(TRUE, str[i])
                           ELSE Atom(FALSE, str[i])]

AtomMatches(atom, c) ==
    IF atom.esc THEN c = atom.ch
    ELSE IF atom.ch = "." THEN TRUE
    ELSE ToLowerChar(c) = ToLowerChar(atom.ch)

RECURSIVE Dedupe(_)
Dedupe(ws) ==
    IF ws = <<>> THEN <<>>
    ELSE LET init == Dedupe(SubSeq(ws, 1, Len(ws) - 1))
             w == ws[Len(ws)]
         IN  IF \E i \in 1..Len(init) : init[i] = w THEN init ELSE Append(init, w)

\* Words without the filter of empty words
WordsKeepsEmpty(vocab) == Dedupe([i \in 1..Len(vocab) |-> trim(vocab[i].word)])

\* Words without the trim and without the filter of empty words
WordsNoTrim(vocab) == Dedupe([i \in 1..Len(vocab) |-> vocab[i].word])

\* Array.from(new Set(vocabulary.map((v) => v.word.trim()).filter((w) => w.length > 0)))
Words(vocab) ==
    Dedupe(SelectSeq([i \in 1..Len(vocab) |-> trim(vocab[i].word)], LAMBDA w : w # <<>>))

Pattern(words) == [i \in 1..Len(words) |-> escapeRegExp(words[i])]

\* \b at the position before character p (1..Len(text)+1)
Boundary(text, p) ==
    LET isW(i) == i >= 1 /\ i <= Len(text) /\ IsWordChar(text[i])
    IN  isW(p - 1) # isW(p)

AltMatches(text, p, alt) ==
    /\ p + Len(alt) - 1 <= Len(text)
    /\ \A k \in 1..Len(alt) : AtomMatches(alt[k], text[p + k - 1])
    /\ Boundary(text, p)
    /\ Boundary(text, p + Len(alt))

\* length of the match of the alternation at p: the first alternative, in list
\* order, that matches between two word boundaries; 0 when none does
MatchLenAt(text, p, pat) ==
    LET hits == {i \in 1..Len(pat) : AltMatches(text, p, pat[i])}
    IN  IF hits = {} THEN 0
        ELSE Len(pat[CHOOSE i \in hits : \A j \in hits : i <= j])

\* regex.exec(text) with regex.lastIndex = from - 1: the start of the leftmost
\* match at or after from, 0 when there is none
NextMatch(text, from, pat) ==
    LET starts == {p \in from..Len(text) : MatchLenAt(text, p, pat) > 0}
    IN  IF starts = {} THEN 0 ELSE CHOOSE p \in starts : \A q \in starts : p <= q

\* the replacement fragment of a text node, built by the exec loop from
\* lastIndex (0-based)
RECURSIVE Fragment(_, _, _)
Fragment(text, lastIndex, pat) ==
    LET start == NextMatch(text, lastIndex + 1, pat) IN
    IF start = 0
    THEN IF lastIndex < Len(text)
         THEN <<TextNode(SubSeq(text, lastIndex + 1, Len(text)))>>
         ELSE <<>>
    ELSE LET len == MatchLenAt(text, start, pat)
             matchText == SubSeq(text, start, start + len - 1)
         IN  (IF start - 1 > lastIndex
              THEN <<TextNode(SubSeq(text, lastIndex + 1, start - 1))>>
              ELSE <<>>)
             \o <<SpanNode(matchText, toLowerCase(matchText))>>
             \o Fragment(text, start - 1 + len, pat)

\* the tree walk: the text nodes pushed to textNodes, in document order
RECURSIVE collectTextNodes(_, _, _)
collectTextNodes(kids, parentTag, inHighlight) ==
    IF kids = <<>> THEN <<>>
    ELSE LET n == Head(kids) IN
         (IF n.kind = "text"
          THEN IF inHighlight \/ parentTag \in {"SCRIPT", "STYLE"} THEN <<>> ELSE <<n>>
          ELSE collectTextNodes(n.kids, n.tag, inHighlight \/ n.kind = "span"))
             \o collectTextNodes(Tail(kids), parentTag, inHighlight)

\* applyKids with the fragment put in place of the parent element of the text node
RECURSIVE applyKidsUnwraps(_, _, _, _)
applyKidsUnwraps(kids, parentTag, inHighlight, pat) ==
    IF kids = <<>> THEN <<>>
    ELSE LET n == Head(kids)
             skipped == inHighlight \/ parentTag \in {"SCRIPT", "STYLE"}
             inner == applyKidsUnwraps(n.kids, n.tag, inHighlight \/ n.kind = "span", pat)
         IN  (IF n.kind = "text"
              THEN IF skipped \/ n.text = <<>> \/ NextMatch(n.text, 1, pat) = 0
                   THEN <<n>>
                   ELSE Fragment(n.text, 0, pat)
              ELSE IF n.kind = "elem" /\ inner # n.kids THEN inner
              ELSE <<[n EXCEPT !.kids = inner]>>)
             \o applyKidsUnwraps(Tail(kids), parentTag, inHighlight, pat)

\* applyKids without regex.lastIndex = 0 between regex.test and the exec loop:
\* the loop resumes after the match that test found
RECURSIVE applyKidsNoReset(_, _, _, _)
applyKidsNoReset(kids, parentTag, inHighlight, pat) ==
    IF kids = <<>> THEN <<>>
    ELSE LET n == Head(kids)
             skipped == inHighlight \/ parentTag \in {"SCRIPT", "STYLE"}
             first == NextMatch(n.text, 1, pat)
             resume == first - 1 + MatchLenAt(n.text, first, pat)
             second == NextMatch(n.text, resume + 1, pat)
         IN  (IF n.kind = "text"
              THEN IF skipped \/ n.text = <<>> \/ first = 0
                   THEN <<n>>
                   ELSE IF second = 0 THEN <<TextNode(n.text)>>
                   ELSE <<TextNode(SubSeq(n.text, 1, second - 1))>>
                            \o Fragment(n.text, second - 1, pat)
              ELSE <<[n EXCEPT !.kids =
                         applyKidsNoReset(n.kids, n.tag, inHighlight \/ n.kind = "span", pat)]>>)
             \o applyKidsNoReset(Tail(kids), parentTag, inHighlight, pat)

\* applyKids without the skip of the text inside script and style elements
RECURSIVE applyKidsIntoScript(_, _, _, _)
applyKidsIntoScript(kids, parentTag, inHighlight, pat) ==
    IF kids = <<>> THEN <<>>
    ELSE LET n == Head(kids) IN
         (IF n.kind = "text"
          THEN IF inHighlight \/ n.text = <<>> \/ NextMatch(n.text, 1, pat) = 0
               THEN <<n>>
               ELSE Fragment(n.text, 0, pat)
          ELSE <<[n EXCEPT !.kids =
                     applyKidsIntoScript(n.kids, n.tag, inHighlight \/ n.kind = "span", pat)]>>)
             \o applyKidsIntoScript(Tail(kids), parentTag, inHighlight, pat)

\* the apply pass: every collected text node with a match is replaced by its fragment
RECURSIVE applyKids(_, _, _, _)
applyKids(kids, parentTag, inHighlight, pat) ==
    IF kids = <<>> THEN <<>>
    ELSE LET n == Head(kids)
             skipped == inHighlight \/ parentTag \in {"SCRIPT", "STYLE"}
         IN  (IF n.kind = "text"
              THEN IF skipped \/ n.text = <<>> \/ NextMatch(n.text, 1, pat) = 0
                   THEN <<n>>
                   ELSE Fragment(n.text, 0, pat)
              ELSE <<[n EXCEPT !.kids =
                         applyKids(n.kids, n.tag, inHighlight \/ n.kind = "span", pat)]>>)
             \o applyKids(Tail(kids), parentTag, inHighlight, pat)

(***************************************************************************)
(* Documents.  dom = [docs, host]: the content documents by window and the *)
(* host document (window.document).                                        *)
(***************************************************************************)
NoFrame == 0

\* the closure of handleClick: the document and the vocabulary it was created for
Handler(f, vocab) == [doc |-> f, vocabulary |-> vocab]

NoHandler == Handler(NoFrame, <<>>)

\* a freshly loaded content document of window f
FreshDoc(f, body) ==
    [id |-> f, avail |-> "ok", body |-> body, styles |-> 0, tooltips |-> <<>>,
     listeners |-> <<>>, handler |-> NoHandler]

RECURSIVE RemoveOne(_, _)
RemoveOne(seq, x) ==
    IF seq = <<>> THEN <<>>
    ELSE IF Head(seq) = x THEN Tail(seq)
    ELSE <<Head(seq)>> \o RemoveOne(Tail(seq), x)

\* removes getElementById('vocab-tooltip'), the first such element, when there is one
removeTooltip(tooltips) == IF tooltips # <<>> THEN Tail(tooltips) ELSE tooltips

clearVocabularyHighlights(d) ==
    [d EXCEPT !.body = clearKids(@), !.tooltips = removeTooltip(@)]

\* rebindHandler without the removal of the previous handler
rebindHandlerStacking(d, h) ==
    [d EXCEPT !.listeners = Append(@, h), !.handler = h]

\* "To avoid stacking multiple handlers, remove previous and add new"
rebindHandler(d, h) ==
    [d EXCEPT !.listeners = Append(IF d.handler # NoHandler THEN RemoveOne(@, d.handler)
                                   ELSE @, h),
              !.handler = h]

\* highlightVocabularyInDocument with the empty-words return ahead of the clear pass
highlightReturnsBeforeClear(d, vocab) ==
    LET words == Words(vocab)
        c == clearVocabularyHighlights(d)
    IN  IF Len(words) = 0 THEN d
        ELSE rebindHandler(
                 [c EXCEPT !.body = applyKids(c.body, "BODY", FALSE, Pattern(words)),
                           !.styles = IF @ = 0 THEN 1 ELSE @],
                 Handler(d.id, vocab))

\* highlightVocabularyInDocument that appends a style element on every pass
highlightAppendsStyle(d, vocab) ==
    LET c == clearVocabularyHighlights(d)
        words == Words(vocab)
    IN  IF Len(words) = 0 THEN c
        ELSE rebindHandler(
                 [c EXCEPT !.body = applyKids(c.body, "BODY", FALSE, Pattern(words)),
                           !.styles = @ + 1],
                 Handler(d.id, vocab))

\* the content document after highlightVocabularyInDocument(doc, vocabulary, ...)
highlightVocabularyInDocument(d, vocab) ==
    LET c == clearVocabularyHighlights(d)
        words == Words(vocab)
    IN  IF Len(words) = 0 THEN c
        ELSE rebindHandler(
                 [c EXCEPT !.body = applyKids(c.body, "BODY", FALSE, Pattern(words)),
                           !.styles = IF @ = 0 THEN 1 ELSE @],
                 Handler(d.id, vocab))

\* the host document after highlightVocabularyInDocument: vocab-style-main
highlightHost(h, vocab) ==
    IF Len(Words(vocab)) = 0 THEN h ELSE [h EXCEPT !.styles = IF @ = 0 THEN 1 ELSE @]

\* the number of text nodes highlightVocabularyInDocument pushes to textNodes,
\* 0 when it returns before the tree walk
scanCount(d, vocab) ==
    IF Len(Words(vocab)) = 0 THEN 0
    ELSE Len(collectTextNodes(clearKids(d.body), "BODY", FALSE))

\* applyHighlights without the check of doc and doc.body
applyHighlightsUnguarded(dom, cl) ==
    LET d == dom.docs[cl.frame] IN
    IF Len(cl.vocab) = 0
    THEN [dom EXCEPT !.docs[cl.frame] = clearVocabularyHighlights(d)]
    ELSE [docs |-> [dom.docs EXCEPT ![cl.frame] = highlightVocabularyInDocument(d, cl.vocab)],
          host |-> highlightHost(dom.host, cl.vocab)]

\* applyHighlights of the effect closure cl = [vocab, frame]
applyHighlights(dom, cl) ==
    LET d == dom.docs[cl.frame] IN
    IF d.avail # "ok" THEN dom
    ELSE IF Len(cl.vocab) = 0
         THEN [dom EXCEPT !.docs[cl.frame] = clearVocabularyHighlights(d)]
         ELSE [docs |-> [dom.docs EXCEPT ![cl.frame] = highlightVocabularyInDocument(d, cl.vocab)],
               host |-> highlightHost(dom.host, cl.vocab)]

applyScanCount(dom, cl) ==
    LET d == dom.docs[cl.frame] IN
    IF d.avail # "ok" \/ Len(cl.vocab) = 0 THEN 0 ELSE scanCount(d, cl.vocab)

(***************************************************************************)
(* The click handler and the popover.                                      *)
(***************************************************************************)
Placeholder == "No explanation saved yet."

\* a click target that is not inside a highlight span
Outside == [kind |-> "none", tag |-> "", text |-> <<>>, word |-> <<>>, kids |-> <<>>]

\* vocabulary.find((v) => v.word.toLowerCase() === word): its index, 0 when absent
findItem(vocab, word) ==
    LET hits == {i \in 1..Len(vocab) : toLowerCase(vocab[i].word) = word}
    IN  IF hits = {} THEN 0 ELSE CHOOSE i \in hits : \A j \in hits : i <= j

\* the popover handleClick builds for a span
Tooltip(vocab, span) ==
    LET word == toLowerCase(IF span.word # <<>> THEN span.word ELSE textContent(span.kids))
        i == findItem(vocab, word)
    IN  [word |-> word,
         title |-> IF i # 0 /\ vocab[i].word # <<>> THEN vocab[i].word
                   ELSE textContent(span.kids),
         body |-> IF i # 0 /\ vocab[i].explanation # "" THEN vocab[i].explanation
                  ELSE Placeholder]

\* handleClick without the removal of the existing popover
handleClickStacking(dom, h, span) ==
    IF span.kind # "span" THEN dom
    ELSE [dom EXCEPT !.host.tooltips = Append(@, Tooltip(h.vocabulary, span))]

\* handleClick of closure h on a click whose target is span (or Outside)
handleClick(dom, h, span) ==
    LET removed == [docs |-> [dom.docs EXCEPT ![h.doc].tooltips = removeTooltip(@)],
                    host |-> [dom.host EXCEPT !.tooltips = removeTooltip(@)]]
    IN  IF span.kind # "span" THEN removed
        ELSE [removed EXCEPT !.host.tooltips = Append(@, Tooltip(h.vocabulary, span))]

\* a click event on a content document runs every registered listener in order
RECURSIVE dispatchClick(_, _, _)
dispatchClick(dom, listeners, span) ==
    IF listeners = <<>> THEN dom
    ELSE dispatchClick(handleClick(dom, Head(listeners), span), Tail(listeners), span)

\* onDelete with the filter keeping the terms of the word instead of the others
onDeleteKeepsMatching(vocab, word) ==
    SelectSeq(vocab, LAMBDA v : toLowerCase(v.word) = toLowerCase(word))

\* onDelete: prev.vocabulary.filter((v) => v.word.toLowerCase() !== word.toLowerCase())
onDelete(vocab, word) ==
    SelectSeq(vocab, LAMBDA v : toLowerCase(v.word) # toLowerCase(word))

RemoveAt(seq, i) == SubSeq(seq, 1, i - 1) \o SubSeq(seq, i + 1, Len(seq))

(***************************************************************************)
(* Bounds and input pools.                                                 *)
(***************************************************************************)
MaxTimers == 2
MaxTerms == 2
MaxKids == 2
MaxOps == 2

\* the content windows, in the order the rendering engine creates them
Frames == {1, 2}

Item(w, e) == [word |-> w, explanation |-> e]

RECURSIVE SeqsUpTo(_, _)
SeqsUpTo(S, n) ==
    IF n = 0 THEN {<<>>}
    ELSE LET shorter == SeqsUpTo(S, n - 1)
         IN  shorter \cup {Append(q, x) : q \in {r \in shorter : Len(r) = n - 1}, x \in S}

\* the vocabularies the store holds in Spec: none, a plain word, a word stored
\* in upper case with surrounding whitespace
VocabLists == {<<>>, <<Item(<<"a">>, "exp")>>, <<Item(<<" ", "B">>, "exp")>>}

\* the terms of SpecStore: a plain word, a word stored in upper case with
\* surrounding whitespace, a blank word
StoreTerms == {Item(<<"a">>, "exp"), Item(<<" ", "B">>, "exp"), Item(<<" ">>, "")}

StoreVocabs == SeqsUpTo(StoreTerms, MaxTerms)

\* the page a content window shows
Page == <<TextNode(<<"a", " ", "b">>), ElemNode("P", <<TextNode(<<"A">>)>>)>>

NoCleanup == [vocab |-> <<>>, frame |-> NoFrame]

Closure(vocab, f) == [vocab |-> vocab, frame |-> f]

Dom == [docs |-> docs, host |-> host]

(***************************************************************************)
(* The BookPane effect.                                                    *)
(***************************************************************************)
\* the observation of a step: the operation, the window whose document its
\* reconciliation run targeted, the text nodes the run scanned, the highlight
\* spans that document held before the step, the data-word clicked or deleted
Step(op, f, scanned, before, word) ==
    [op |-> op, frame |-> f, scanned |-> scanned, before |-> before, word |-> word]

spanCount(dom, f) == IF f = NoFrame THEN 0 ELSE Len(querySpans(dom.docs[f].body))

Init ==
    /\ vocabulary = <<>>
    /\ iframe = NoFrame
    /\ rendition = FALSE
    /\ docs = [f \in Frames |-> [FreshDoc(f, <<>>) EXCEPT !.avail = "unloaded"]]
    /\ host = [tooltips |-> <<>>, styles |-> 0]
    /\ relocated = <<>>
    /\ cleanup = NoCleanup
    /\ timers = <<>>
    /\ last = Step("init", NoFrame, 0, 0, <<>>)
    /\ hist = <<>>

\* the previous effect's cleanup, then the effect body with the new dependencies
runEffect(op, vocab, f, rend, dom, word) ==
    LET rel == IF cleanup # NoCleanup THEN RemoveOne(relocated, cleanup) ELSE relocated
        cl == Closure(vocab, f)
    IN  \E after \in {IF f = NoFrame THEN dom ELSE applyHighlights(dom, cl)} :
        /\ docs' = after.docs
        /\ host' = after.host
        /\ relocated' = IF f # NoFrame /\ rend THEN Append(rel, cl) ELSE rel
        /\ cleanup' = IF f # NoFrame /\ rend THEN cl ELSE NoCleanup
        /\ last' = Step(op, f, IF f = NoFrame THEN 0 ELSE applyScanCount(dom, cl),
                        spanCount(dom, f), word)

\* the vocabulary store changes (a term added or removed elsewhere, an import,
\* a download): aiState.vocabulary is a new array
VocabularyChanges(v) ==
    /\ vocabulary' = v
    /\ runEffect("vocabulary", v, iframe, rendition, Dom, <<>>)
    /\ UNCHANGED <<iframe, rendition, timers>>

SetVocabulary(v) == VocabularyChanges(v) /\ UNCHANGED hist

\* the rendering engine shows a new content window: tab.iframe changes. Every
\* window is a new object, so windows are numbered in the order they are created
SetIframe(f) ==
    /\ docs[f].avail = "unloaded"
    /\ \A g \in Frames : g < f => docs[g].avail # "unloaded"
    /\ iframe' = f
    /\ runEffect("iframe", vocabulary, f, rendition,
                 [Dom EXCEPT !.docs[f] = FreshDoc(f, Page)], <<>>)
    /\ UNCHANGED <<vocabulary, rendition, timers, hist>>

\* tab.rendition is set once the book is rendered
SetRendition ==
    /\ ~rendition
    /\ rendition' = TRUE
    /\ runEffect("rendition", vocabulary, iframe, TRUE, Dom, <<>>)
    /\ UNCHANGED <<vocabulary, iframe, timers, hist>>

\* the content window shown loses its document, or the document its body
TearDown(how) ==
    /\ iframe # NoFrame
    /\ docs[iframe].avail = "ok"
    /\ docs' = [docs EXCEPT ![iframe].avail = how]
    /\ last' = Step("teardown", NoFrame, 0, 0, <<>>)
    /\ UNCHANGED <<vocabulary, iframe, rendition, host, relocated, cleanup, timers, hist>>

\* handleRelocated that sets no timer
handleRelocatedNoTimer(ts, cl) == ts

\* handleRelocated of the effect closure cl: setTimeout(applyHighlights, 150)
handleRelocated(ts, cl) == Append(ts, cl)

RECURSIVE emitRelocated(_, _)
emitRelocated(ts, handlers) ==
    IF handlers = <<>> THEN ts
    ELSE emitRelocated(handleRelocated(ts, Head(handlers)), Tail(handlers))

\* a relocation whose handler calls applyHighlights at once instead of setting a timer
RelocatedRunsNow ==
    /\ rendition
    /\ relocated # <<>>
    /\ LET after == applyHighlights(Dom, Head(relocated)) IN
       /\ docs' = after.docs
       /\ host' = after.host
    /\ last' = Step("relocated", NoFrame, 0, 0, <<>>)
    /\ UNCHANGED <<vocabulary, iframe, rendition, relocated, cleanup, timers, hist>>

\* rendition emits 'relocated': every registered handleRelocated runs
Relocated ==
    /\ rendition
    /\ relocated # <<>>
    /\ Len(timers) + Len(relocated) <= MaxTimers
    /\ timers' = emitRelocated(timers, relocated)
    /\ last' = Step("relocated", NoFrame, 0, 0, <<>>)
    /\ UNCHANGED <<vocabulary, iframe, rendition, docs, host, relocated, cleanup, hist>>

\* the oldest timer fires: applyHighlights of the closure it was set with
TimerFires ==
    /\ timers # <<>>
    /\ LET cl == Head(timers) IN
       \E after \in {applyHighlights(Dom, cl)} :
           /\ docs' = after.docs
           /\ host' = after.host
           /\ last' = Step("timer", cl.frame, applyScanCount(Dom, cl),
                           spanCount(Dom, cl.frame), <<>>)
    /\ timers' = Tail(timers)
    /\ UNCHANGED <<vocabulary, iframe, rendition, relocated, cleanup, hist>>

\* a click in the content document that is shown, on a highlight span or elsewhere
Click(span) ==
    /\ iframe # NoFrame
    /\ docs[iframe].avail = "ok"
    /\ \E after \in {dispatchClick(Dom, docs[iframe].listeners, span)} :
       /\ docs' = after.docs
       /\ host' = after.host
    /\ last' = Step(IF span.kind = "span" THEN "click" ELSE "clickOutside", NoFrame, 0, 0,
                    span.word)
    /\ UNCHANGED <<vocabulary, iframe, rendition, relocated, cleanup, timers, hist>>

ClickSpan ==
    /\ iframe # NoFrame
    /\ \E i \in 1..Len(querySpans(docs[iframe].body)) : Click(querySpans(docs[iframe].body)[i])

ClickOutside == Click(Outside)

\* deleteBtn.onclick without the removal of the popover
DeleteClickedKeepsPopover(i) ==
    /\ LET t == host.tooltips[i]
           v == onDelete(vocabulary, t.word)
       IN  /\ vocabulary' = v
           /\ runEffect("delete", v, iframe, rendition, Dom, t.word)
    /\ UNCHANGED <<iframe, rendition, timers>>

\* deleteBtn.onclick of the popover at index i of the host body: onDelete(word),
\* the popover removed, then the effect of the vocabulary change
DeleteClicked(i) ==
    /\ LET t == host.tooltips[i]
           v == onDelete(vocabulary, t.word)
       IN  /\ vocabulary' = v
           /\ runEffect("delete", v, iframe, rendition,
                        [Dom EXCEPT !.host.tooltips = RemoveAt(@, i)], t.word)
    /\ UNCHANGED <<iframe, rendition, timers>>

DeleteClick == \E i \in 1..Len(host.tooltips) : DeleteClicked(i) /\ UNCHANGED hist

Next ==
    \/ \E v \in VocabLists : SetVocabulary(v)
    \/ \E f \in Frames : SetIframe(f)
    \/ SetRendition
    \/ \E how \in {"nodoc", "nobody"} : TearDown(how)
    \/ Relocated
    \/ TimerFires
    \/ ClickSpan
    \/ ClickOutside
    \/ DeleteClick

Spec == Init /\ [][Next]_vars

(***************************************************************************)
(* SpecStore: one content document; the vocabulary store changes over the  *)
(* vocabularies of up to MaxTerms terms, the user clicks and deletes.      *)
(* hist counts the runs of the effect caused by vocabulary changes.        *)
(***************************************************************************)
MaxPasses == 2

InitStore ==
    /\ vocabulary = <<>>
    /\ iframe = 1
    /\ rendition = FALSE
    /\ docs = [f \in Frames |->
                  IF f = 1 THEN FreshDoc(1, Page)
                  ELSE [FreshDoc(f, <<>>) EXCEPT !.avail = "unloaded"]]
    /\ host = [tooltips |-> <<>>, styles |-> 0]
    /\ relocated = <<>>
    /\ cleanup = NoCleanup
    /\ timers = <<>>
    /\ last = Step("iframe", 1, 0, 0, <<>>)
    /\ hist = 0

Counted == hist' = IF hist < MaxPasses THEN hist + 1 ELSE hist

StoreSetVocabulary(v) == v # vocabulary /\ VocabularyChanges(v) /\ Counted

StoreDeleteClick == \E i \in 1..Len(host.tooltips) : DeleteClicked(i) /\ Counted

\* a click in the host document, outside the popover: handleClick is registered
\* on the content document only, no listener of the engine runs
ClickHost ==
    /\ last' = Step("clickHost", NoFrame, 0, 0, <<>>)
    /\ UNCHANGED <<vocabulary, iframe, rendition, docs, host, relocated, cleanup, timers, hist>>

NextStore ==
    \/ \E v \in StoreVocabs : StoreSetVocabulary(v)
    \/ ClickSpan
    \/ ClickOutside
    \/ ClickHost
    \/ StoreDeleteClick

SpecStore == InitStore /\ [][NextStore]_vars

(***************************************************************************)
(* SpecPass: clearVocabularyHighlights and highlightVocabularyInDocument   *)
(* run on one document, for every body and vocabulary of the pools.        *)
(***************************************************************************)
\* the terms of SpecPass: those of SpecStore and a word with a longer one
PassTerms == StoreTerms \cup {Item(<<"a", "b">>, "")}

PassVocabs == SeqsUpTo(PassTerms, MaxTerms)

PassNodes ==
    {TextNode(<<>>), TextNode(<<"a">>), TextNode(<<"b">>), TextNode(<<"a", " ", "b">>),
     ElemNode("P", <<TextNode(<<"a", " ", "B">>)>>), ElemNode("SCRIPT", <<TextNode(<<"a">>)>>),
     ElemNode("DIV", <<TextNode(<<"a">>), ElemNode("P", <<TextNode(<<"b">>)>>)>>)}

PassBodies == SeqsUpTo(PassNodes, MaxKids)

Snapshot(op, body, scanned) == [op |-> op, body |-> body, scanned |-> scanned]

InitPass ==
    /\ vocabulary \in PassVocabs
    /\ iframe = 1
    /\ rendition = FALSE
    /\ \E body \in PassBodies :
          /\ docs = [f \in Frames |->
                        IF f = 1 THEN FreshDoc(1, body)
                        ELSE [FreshDoc(f, <<>>) EXCEPT !.avail = "unloaded"]]
          /\ hist = <<Snapshot("load", body, 0)>>
    /\ host = [tooltips |-> <<>>, styles |-> 0]
    /\ relocated = <<>>
    /\ cleanup = NoCleanup
    /\ timers = <<>>
    /\ last = Step("init", NoFrame, 0, 0, <<>>)

PassHighlight ==
    /\ Len(hist) <= MaxOps
    /\ docs' = [docs EXCEPT ![1] = highlightVocabularyInDocument(@, vocabulary)]
    /\ host' = highlightHost(host, vocabulary)
    /\ last' = Step("highlight", 1, scanCount(docs[1], vocabulary), spanCount(Dom, 1), <<>>)
    /\ hist' = Append(hist, Snapshot("highlight", docs'[1].body, last'.scanned))
    /\ UNCHANGED <<vocabulary, iframe, rendition, relocated, cleanup, timers>>

PassClear ==
    /\ Len(hist) <= MaxOps
    /\ docs' = [docs EXCEPT ![1] = clearVocabularyHighlights(@)]
    /\ last' = Step("clear", 1, 0, spanCount(Dom, 1), <<>>)
    /\ hist' = Append(hist, Snapshot("clear", docs'[1].body, 0))
    /\ UNCHANGED <<vocabulary, iframe, rendition, host, relocated, cleanup, timers>>

NextPass == PassHighlight \/ PassClear

SpecPass == InitPass /\ [][NextPass]_vars

(***************************************************************************)
(* SpecWords: one pass of highlightVocabularyInDocument over a paragraph   *)
(* that holds one text node, for every text of up to MaxLen characters and *)
(* every vocabulary of up to MaxTerms terms of WordTerms.                  *)
(***************************************************************************)
MaxLen == 3

\* letters in both cases, a regex metacharacter that is no word character, a space
TextChars == {"a", "A", "b", ".", " "}

Texts == SeqsUpTo(TextChars, MaxLen)

\* a word, a longer word it is a prefix of (stored in mixed case), a term that
\* ends with a character that is no word character, the first word again in
\* upper case after a space, a blank entry
WordTerms ==
    {Item(<<"a">>, ""), Item(<<"a", "B">>, ""), Item(<<"a", ".">>, ""),
     Item(<<" ", "A">>, ""), Item(<<" ">>, "")}

WordVocabs == SeqsUpTo(WordTerms, MaxTerms)

Paragraph(t) == <<ElemNode("P", <<TextNode(t)>>)>>

InitWords ==
    /\ vocabulary \in WordVocabs
    /\ iframe = 1
    /\ rendition = FALSE
    /\ \E t \in Texts :
          /\ docs = [f \in Frames |->
                        IF f = 1 THEN FreshDoc(1, Paragraph(t))
                        ELSE [FreshDoc(f, <<>>) EXCEPT !.avail = "unloaded"]]
          /\ hist = <<Snapshot("load", Paragraph(t), 0)>>
    /\ host = [tooltips |-> <<>>, styles |-> 0]
    /\ relocated = <<>>
    /\ cleanup = NoCleanup
    /\ timers = <<>>
    /\ last = Step("init", NoFrame, 0, 0, <<>>)

WordsPass == Len(hist) = 1 /\ PassHighlight

NextWords == WordsPass

SpecWords == InitWords /\ [][NextWords]_vars

(***************************************************************************)
(* SpecPlace: the placement of the popover by handleClick, for every       *)
(* geometry of the pools.  Lengths are in pixels; a computed position is   *)
(* kept as twice its value in pixels (left2, top2), so that the halves of  *)
(* the centred placement are exact.                                        *)
(***************************************************************************)
\* isMobileDevice = windowWidth <= 640
MobileBreakpoint == 640

\* let top = rect.bottom + 6
gap == 6

\* the 8px margin of the top and left edges
margin == 8

\* const padding = 16
padding == 16

\* what handleClick measures: rect = span.getBoundingClientRect() (in the content
\* window), tip = tooltip.getBoundingClientRect(), windowWidth / windowHeight =
\* window.innerWidth / innerHeight (host), viewportHeight =
\* doc.defaultView?.innerHeight ?? 0 (content window), sidebar = width of
\* .RightSidebar (0 when there is none); offset is the position of the content
\* window inside the host window, which handleClick does not read
Geometry(rect, tip, ww, wh, vh, sidebar, offset) ==
    [rect |-> rect, tip |-> tip, windowWidth |-> ww, windowHeight |-> wh,
     viewportHeight |-> vh, sidebar |-> sidebar, offset |-> offset]

\* placeTooltip without the clamp of left to maxLeft
placeTooltipNoRightClamp(g) ==
    LET isMobileDevice == g.windowWidth <= MobileBreakpoint
        below == g.rect.bottom + gap
        above == g.rect.top - g.tip.height - gap
        top == IF below + g.tip.height > g.viewportHeight - margin
               THEN (IF above < margin THEN margin ELSE above)
               ELSE below
        left == IF g.rect.left < margin THEN margin ELSE g.rect.left
    IN  IF isMobileDevice
        THEN [left2 |-> g.windowWidth - g.tip.width, top2 |-> g.windowHeight - g.tip.height]
        ELSE [left2 |-> 2 * left, top2 |-> 2 * top]

\* placeTooltip without the clamp of the flipped top to the top margin
placeTooltipNoTopClamp(g) ==
    LET isMobileDevice == g.windowWidth <= MobileBreakpoint
        rightSidebarWidth == IF isMobileDevice THEN 0 ELSE g.sidebar
        below == g.rect.bottom + gap
        above == g.rect.top - g.tip.height - gap
        top == IF below + g.tip.height > g.viewportHeight - margin THEN above ELSE below
        availableWidth == g.windowWidth - rightSidebarWidth - padding
        maxLeft == availableWidth - g.tip.width
        clamped == IF g.rect.left > maxLeft THEN maxLeft ELSE g.rect.left
        left == IF clamped < margin THEN margin ELSE clamped
    IN  IF isMobileDevice
        THEN [left2 |-> g.windowWidth - g.tip.width, top2 |-> g.windowHeight - g.tip.height]
        ELSE [left2 |-> 2 * left, top2 |-> 2 * top]

\* placeTooltip with the breakpoint compared by < instead of <=
placeTooltipStrictBreakpoint(g) ==
    LET isMobileDevice == g.windowWidth < MobileBreakpoint
        rightSidebarWidth == IF isMobileDevice THEN 0 ELSE g.sidebar
        below == g.rect.bottom + gap
        above == g.rect.top - g.tip.height - gap
        top == IF below + g.tip.height > g.viewportHeight - margin
               THEN (IF above < margin THEN margin ELSE above)
               ELSE below
        availableWidth == g.windowWidth - rightSidebarWidth - padding
        maxLeft == availableWidth - g.tip.width
        clamped == IF g.rect.left > maxLeft THEN maxLeft ELSE g.rect.left
        left == IF clamped < margin THEN margin ELSE clamped
    IN  IF isMobileDevice
        THEN [left2 |-> g.windowWidth - g.tip.width, top2 |-> g.windowHeight - g.tip.height]
        ELSE [left2 |-> 2 * left, top2 |-> 2 * top]

\* tooltip.style.left / tooltip.style.top as handleClick sets them
\* placeTooltip with the two clamps of left in the other order
placeTooltipRightClampLast(g) ==
    LET isMobileDevice == g.windowWidth <= MobileBreakpoint
        rightSidebarWidth == IF isMobileDevice THEN 0 ELSE g.sidebar
        below == g.rect.bottom + gap
        above == g.rect.top - g.tip.height - gap
        top == IF below + g.tip.height > g.viewportHeight - margin
               THEN (IF above < margin THEN margin ELSE above)
               ELSE below
        availableWidth == g.windowWidth - rightSidebarWidth - padding
        maxLeft == availableWidth - g.tip.width
        floored == IF g.rect.left < margin THEN margin ELSE g.rect.left
        left == IF floored > maxLeft THEN maxLeft ELSE floored
    IN  IF isMobileDevice
        THEN [left2 |-> g.windowWidth - g.tip.width, top2 |-> g.windowHeight - g.tip.height]
        ELSE [left2 |-> 2 * left, top2 |-> 2 * top]

placeTooltip(g) ==
    LET isMobileDevice == g.windowWidth <= MobileBreakpoint
        rightSidebarWidth == IF isMobileDevice THEN 0 ELSE g.sidebar
        below == g.rect.bottom + gap
        above == g.rect.top - g.tip.height - gap
        top == IF below + g.tip.height > g.viewportHeight - margin
               THEN (IF above < margin THEN margin ELSE above)
               ELSE below
        availableWidth == g.windowWidth - rightSidebarWidth - padding
        maxLeft == availableWidth - g.tip.width
        clamped == IF g.rect.left > maxLeft THEN maxLeft ELSE g.rect.left
        left == IF clamped < margin THEN margin ELSE clamped
    IN  IF isMobileDevice
        THEN [left2 |-> g.windowWidth - g.tip.width, top2 |-> g.windowHeight - g.tip.height]
        ELSE [left2 |-> 2 * left, top2 |-> 2 * top]

\* anchors: at the left edge, in the page, at and past the reserved side panel;
\* near the top, in the middle, within 8px of the bottom, at the bottom
RectLefts == {0, 100, 460, 700}

RectRows == {[top |-> 20, bottom |-> 40], [top |-> 300, bottom |-> 320],
             [top |-> 470, bottom |-> 490], [top |-> 560, bottom |-> 580]}

Rects == {[left |-> l, top |-> r.top, bottom |-> r.bottom] : l \in RectLefts, r \in RectRows}

\* the sizes the style sheet allows: min-width 146px, max-width 240px and the
\* horizontal padding, max-height 320px
TipSizes == {[width |-> w, height |-> h] : w \in {146, 264}, h \in {100, 320}}

Offsets == {[dx |-> 0, dy |-> 0], [dx |-> 100, dy |-> 50]}

Geometries ==
    {Geometry(rect, tip, ww, 600, vh, sidebar, offset) :
        rect \in Rects, tip \in TipSizes, ww \in {640, 641, 800},
        vh \in {500, 600}, sidebar \in {0, 320, 400}, offset \in Offsets}

InitPlace ==
    /\ vocabulary = <<>>
    /\ iframe = 1
    /\ rendition = FALSE
    /\ docs = [f \in Frames |->
                  IF f = 1 THEN FreshDoc(1, Page)
                  ELSE [FreshDoc(f, <<>>) EXCEPT !.avail = "unloaded"]]
    /\ host = [tooltips |-> <<>>, styles |-> 0]
    /\ relocated = <<>>
    /\ cleanup = NoCleanup
    /\ timers = <<>>
    /\ last = [op |-> "init"]
    /\ hist = <<>>

\* handleClick places the popover it attached, in geometry g (one click per behaviour)
Place(g) ==
    /\ last.op = "init"
    /\ last' = [op |-> "place", g |-> g, at |-> placeTooltip(g)]
    /\ UNCHANGED <<vocabulary, iframe, rendition, docs, host, relocated, cleanup, timers, hist>>

NextPlace == \E g \in Geometries : Place(g)

SpecPlace == InitPlace /\ [][NextPlace]_vars

(***************************************************************************)
(* SpecLive: the mounted pane with its rendition set and the first content *)
(* window shown; the store changes the vocabulary, the rendering engine    *)
(* relocates, shows a new window or drops the document, timers fire.  The  *)
(* event loop runs every setTimeout callback once its delay has passed, so *)
(* the firing of a pending timer is weakly fair.                           *)
(***************************************************************************)
\* the state after SetIframe(1) and SetRendition from Init
InitLive ==
    /\ vocabulary = <<>>
    /\ iframe = 1
    /\ rendition = TRUE
    /\ docs = [f \in Frames |->
                  IF f = 1 THEN FreshDoc(1, Page)
                  ELSE [FreshDoc(f, <<>>) EXCEPT !.avail = "unloaded"]]
    /\ host = [tooltips |-> <<>>, styles |-> 0]
    /\ relocated = <<Closure(<<>>, 1)>>
    /\ cleanup = Closure(<<>>, 1)
    /\ timers = <<>>
    /\ last = Step("rendition", 1, 0, 0, <<>>)
    /\ hist = <<>>

NextLive ==
    \/ \E v \in VocabLists : SetVocabulary(v)
    \/ \E f \in Frames : SetIframe(f)
    \/ \E how \in {"nodoc", "nobody"} : TearDown(how)
    \/ Relocated
    \/ TimerFires

\* what the firing of the oldest timer does to the pending timers.  Of the
\* actions of NextLive only TimerFires removes a timer, and TimerFires is
\* enabled whenever a timer is pending, so weak fairness of TimerDue on timers
\* is weak fairness of TimerFires.
TimerDue == timers # <<>> /\ timers' = Tail(timers)

SpecLive == InitLive /\ [][NextLive]_vars /\ WF_timers(TimerDue)

(***************************************************************************)
(* SpecOrder: one paragraph holding one text node, and a store whose terms *)
(* overlap: a word, a second word, and the two-word term made of them (as  *)
(* "new", "york" and "new york").  The store sets any list of up to        *)
(* MaxTerms of them, in any order; every change runs the effect.           *)
(***************************************************************************)
OrderChars == {"a", "b", " "}

OrderTexts == SeqsUpTo(OrderChars, MaxLen)

OrderTerms == {Item(<<"a">>, ""), Item(<<"b">>, ""), Item(<<"a", " ", "b">>, "")}

OrderVocabs == SeqsUpTo(OrderTerms, MaxTerms)

InitOrder ==
    /\ vocabulary = <<>>
    /\ iframe = 1
    /\ rendition = FALSE
    /\ \E t \in OrderTexts :
          docs = [f \in Frames |->
                     IF f = 1 THEN FreshDoc(1, Paragraph(t))
                     ELSE [FreshDoc(f, <<>>) EXCEPT !.avail = "unloaded"]]
    /\ host = [tooltips |-> <<>>, styles |-> 0]
    /\ relocated = <<>>
    /\ cleanup = NoCleanup
    /\ timers = <<>>
    /\ last = Step("iframe", 1, 0, 0, <<>>)
    /\ hist = 0

NextOrder == \E v \in OrderVocabs : StoreSetVocabulary(v)

SpecOrder == InitOrder /\ [][NextOrder]_vars

(***************************************************************************)
(* SpecLoop: one run of highlightVocabularyInDocument step by step: the    *)
(* tree walk that fills textNodes, then for every collected node the       *)
(* regex.test and each regex.exec of the match loop.  last holds the       *)
(* locals of the run, hist the fragments that replaced the nodes so far.   *)
(* The engine keeps executing a loop it is in, so the steps are weakly     *)
(* fair.                                                                   *)
(***************************************************************************)
LoopChars == {"a", " "}

LoopTexts == SeqsUpTo(LoopChars, MaxLen)

\* a word, a term that ends with a metacharacter, a blank entry
LoopTerms == {Item(<<"a">>, ""), Item(<<"a", ".">>, ""), Item(<<" ">>, "")}

LoopVocabs == SeqsUpTo(LoopTerms, MaxTerms)

\* the body: a text node and a paragraph after it that holds two matches
LoopBody(t) == <<TextNode(t), ElemNode("P", <<TextNode(<<"a", ".", "a">>)>>)>>

\* the locals of the run: textNodes, the index of the node of the for loop,
\* regex.lastIndex, frag and lastIndex of the node in work
Locals(op, textNodes, node, regexLastIndex, frag, lastIndex) ==
    [op |-> op, textNodes |-> textNodes, node |-> node,
     regexLastIndex |-> regexLastIndex, frag |-> frag, lastIndex |-> lastIndex]

\* regex.exec(text) with regex.lastIndex = from (0-based): the leftmost position
\* at or after it where an alternative matches, the first such alternative
ExecFrom(text, from, pat) ==
    LET hits == {h \in ((from + 1)..(Len(text) + 1)) \X (1..Len(pat)) :
                    AltMatches(text, h[1], pat[h[2]])}
        first(hs) == CHOOSE h \in hs :
                         \A g \in hs : h[1] < g[1] \/ (h[1] = g[1] /\ h[2] <= g[2])
    IN  CHOOSE m \in {IF hs = {} THEN [found |-> FALSE, index |-> 0, len |-> 0]
                      ELSE [found |-> TRUE, index |-> first(hs)[1] - 1,
                            len |-> Len(pat[first(hs)[2]])] : hs \in {hits}} : TRUE

InitLoop ==
    /\ vocabulary \in LoopVocabs
    /\ iframe = 1
    /\ rendition = FALSE
    /\ \E t \in LoopTexts :
          docs = [f \in Frames |->
                     IF f = 1 THEN FreshDoc(1, LoopBody(t))
                     ELSE [FreshDoc(f, <<>>) EXCEPT !.avail = "unloaded"]]
    /\ host = [tooltips |-> <<>>, styles |-> 0]
    /\ relocated = <<>>
    /\ cleanup = NoCleanup
    /\ timers = <<>>
    /\ last = Locals("start", <<>>, 0, 0, <<>>, 0)
    /\ hist = <<>>

\* the next iteration of the for loop, or its end
NextNode(l) ==
    [l EXCEPT !.op = IF l.node < Len(l.textNodes) THEN "test" ELSE "done",
              !.node = @ + 1, !.regexLastIndex = 0, !.frag = <<>>, !.lastIndex = 0]

\* the clear pass, the words, the early return, the tree walk
LoopCollect ==
    /\ last.op = "start"
    /\ \E c \in {clearVocabularyHighlights(docs[1])} :
       \E nodes \in {collectTextNodes(c.body, "BODY", FALSE)}, words \in {Words(vocabulary)} :
           /\ docs' = [docs EXCEPT ![1] = c]
           /\ last' = IF Len(words) = 0
                      THEN Locals("done", <<>>, 0, 0, <<>>, 0)
                      ELSE NextNode(Locals("start", [i \in 1..Len(nodes) |-> nodes[i].text],
                                           0, 0, <<>>, 0))
    /\ UNCHANGED <<vocabulary, iframe, rendition, host, relocated, cleanup, timers, hist>>

\* if (!text) continue; if (!regex.test(text)) { regex.lastIndex = 0; continue }
\* regex.lastIndex = 0
LoopTest ==
    /\ last.op = "test"
    /\ \E text \in {last.textNodes[last.node]}, words \in {Words(vocabulary)} :
       \E pat \in {Pattern(words)} :
       \E m \in {ExecFrom(text, last.regexLastIndex, pat)} :
       IF text = <<>> \/ ~m.found
       THEN /\ last' = NextNode(last)
            /\ hist' = Append(hist, <<TextNode(text)>>)
       ELSE /\ last' = [last EXCEPT !.op = "exec", !.regexLastIndex = 0]
            /\ hist' = hist
    /\ UNCHANGED <<vocabulary, iframe, rendition, docs, host, relocated, cleanup, timers>>

\* one regex.exec of the while loop: a match appends the text before it and its
\* span; null ends the loop, the rest of the text is appended and the node replaced
LoopExec ==
    /\ last.op = "exec"
    /\ \E text \in {last.textNodes[last.node]}, words \in {Words(vocabulary)} :
       \E pat \in {Pattern(words)} :
       \E m \in {ExecFrom(text, last.regexLastIndex, pat)} :
       \E matchText \in {SubSeq(text, m.index + 1, m.index + m.len)} :
           IF m.found
           THEN /\ last' = [last EXCEPT
                               !.frag = @ \o (IF m.index > last.lastIndex
                                              THEN <<TextNode(SubSeq(text, last.lastIndex + 1,
                                                                     m.index))>>
                                              ELSE <<>>)
                                          \o <<SpanNode(matchText, toLowerCase(matchText))>>,
                               !.lastIndex = m.index + m.len,
                               !.regexLastIndex = m.index + m.len]
                /\ hist' = hist
           ELSE /\ last' = NextNode(last)
                /\ hist' = Append(hist,
                                  last.frag \o (IF last.lastIndex < Len(text)
                                                THEN <<TextNode(SubSeq(text, last.lastIndex + 1,
                                                                       Len(text)))>>
                                                ELSE <<>>))
    /\ UNCHANGED <<vocabulary, iframe, rendition, docs, host, relocated, cleanup, timers>>

NextLoop == LoopCollect \/ LoopTest \/ LoopExec

SpecLoop == InitLoop /\ [][NextLoop]_vars /\ WF_vars(NextLoop)

(***************************************************************************)
(* Properties.                                                             *)
(***************************************************************************)
\* the words of a vocabulary as the matcher sees them: trimmed, lower-cased
NormalizedWords(vocab) == {toLowerCase(trim(vocab[i].word)) : i \in 1..Len(vocab)}

SpansOf(f) == querySpans(docs[f].body)

SpanWords(f) == {SpansOf(f)[i].word : i \in 1..Len(SpansOf(f))}

Shown == iframe # NoFrame /\ docs[iframe].avail = "ok"

\* C1: between reconciliation passes, every highlight span of the content
\* document shown carries the data-word of some term of the current vocabulary
\* (its word trimmed as the matcher trims it, and lower-cased); no step, the
\* firing of a relocation timer set before a removal included, brings back a
\* span of a word that left the vocabulary.
C1_SpansFollowVocabulary ==
    Shown => SpanWords(iframe) \subseteq NormalizedWords(vocabulary)

\* the serialized markup of a body: adjacent text nodes run together and empty
\* text nodes leave no trace, elements and spans keep their tags and order
Markup(kids) == normalize(kids)

\* C2: highlightVocabularyInDocument run twice in succession on any document
\* leaves the markup the first run left (compared as serialized markup, which
\* equal node sequences share).
C2_PassIdempotent ==
    \A i \in 2..Len(hist) :
        hist[i].op = "highlight" /\ hist[i - 1].op = "highlight"
            => Markup(hist[i].body) = Markup(hist[i - 1].body)

\* C3: annotating a document and then running clearVocabularyHighlights leaves
\* no highlight span and the text content the document had before annotation.
C3_ClearRoundTrip ==
    \A i \in 3..Len(hist) :
        hist[i].op = "clear" /\ hist[i - 1].op = "highlight"
            => /\ querySpans(hist[i].body) = <<>>
               /\ textContent(hist[i].body) = textContent(hist[i - 2].body)

C3_Witness ==
    /\ Len(hist) = 3
    /\ hist[3].op = "clear" /\ hist[2].op = "highlight"
    /\ Len(querySpans(hist[2].body)) >= 2
    /\ \E i \in 1..Len(querySpans(hist[2].body)) :
          LET sp == querySpans(hist[2].body)[i] IN sp.word # textContent(sp.kids)

\* C4, as claimed: after two or more passes caused by vocabulary changes exactly
\* one click handler is registered on the document, the one in _vocabClickHandler.
C4_ExactlyOneHandler ==
    hist >= 2 /\ last.op = "vocabulary"
        => docs[1].listeners = <<docs[1].handler>> /\ docs[1].handler # NoHandler

\* C4, amended: after any number of passes at most one click handler is
\* registered on the document and it is the one in _vocabClickHandler; there is
\* exactly one once a pass with a non-blank word has run on the document (it has
\* injected vocab-style), and none before.
C4_AtMostOneHandler ==
    /\ Len(docs[1].listeners) <= 1
    /\ docs[1].handler = NoHandler => docs[1].listeners = <<>> /\ docs[1].styles = 0
    /\ docs[1].handler # NoHandler
           => docs[1].listeners = <<docs[1].handler>> /\ docs[1].styles = 1

C4_Witness ==
    /\ hist >= 2
    /\ last.op = "vocabulary"
    /\ docs[1].listeners = <<Handler(1, vocabulary)>>
    /\ Words(vocabulary) # <<>>

\* C5: at most one popover exists in the host and content documents together,
\* and after a click on a highlight span it is the popover of that span.
C5_SinglePopover ==
    /\ Len(host.tooltips) <= 1
    /\ \A f \in Frames : docs[f].tooltips = <<>>
    /\ last.op = "click" => Len(host.tooltips) = 1 /\ host.tooltips[1].word = last.word

C5_Witness ==
    /\ last.op = "click"
    /\ iframe = 2
    /\ Len(host.tooltips) = 1
    /\ docs[1].handler # NoHandler

\* C6: a delete from the popover of a span removes every term whose trimmed,
\* lower-cased word is the span's data-word, and the pass that follows leaves no
\* span of that word and the original text.
C6_DeletePropagates ==
    last.op = "delete"
        => /\ last.word \notin NormalizedWords(vocabulary)
           /\ last.word \notin SpanWords(1)
           /\ textContent(docs[1].body) = textContent(Page)

\* C7: at most one deferred reconciliation run is pending at any time.
C7_OnePendingRun == Len(timers) <= 1

\* C8: the step of a vocabulary change runs the reconciler on the document shown
\* with the new vocabulary and sets no timer; the step of a relocation leaves
\* every document as it is and only sets the timer of the deferred run.
C8_ImmediateAndDeferred ==
    [][ /\ (last'.op \in {"vocabulary", "delete"} /\ Shown)
            => /\ docs'[iframe] = applyHighlights(Dom, Closure(vocabulary', iframe)).docs[iframe]
               /\ SpanWords(iframe)' \subseteq NormalizedWords(vocabulary')
               /\ timers' = timers
        /\ last'.op = "relocated"
            => /\ docs' = docs
               /\ host' = host
               /\ Len(timers') = Len(timers) + 1
               /\ timers'[Len(timers')] = cleanup
      ]_vars

C8_Witness ==
    /\ last.op = "relocated"
    /\ timers # <<>>
    /\ Shown
    /\ timers[Len(timers)].vocab # <<>>
    /\ SpanWords(iframe) # NormalizedWords(timers[Len(timers)].vocab)

\* C9: a reconciliation run, immediate or deferred, that finds no content
\* window, no document or no body changes no document, handler, style or popover.
C9_MissingDocumentNoOp ==
    [][ /\ (last'.op = "timer" /\ docs[Head(timers).frame].avail # "ok")
            => docs' = docs /\ host' = host
        /\ (last'.op \in {"vocabulary", "rendition"} /\ ~Shown)
            => docs' = docs /\ host' = host
      ]_vars

C9_Witness ==
    /\ last.op = "timer"
    /\ last.frame # NoFrame
    /\ docs[last.frame].avail \in {"nodoc", "nobody"}
    /\ SpanWords(last.frame) # {}
    /\ vocabulary = <<>>

\* C10: a pass whose vocabulary is empty or holds only blank words removes every
\* highlight span of the annotated document and scans no text node.
C10_EmptyVocabularyClears ==
    (last.op \in {"vocabulary", "delete"} /\ Len(Words(vocabulary)) = 0)
        => SpansOf(1) = <<>> /\ last.scanned = 0

C10_Witness ==
    /\ last.op = "vocabulary"
    /\ vocabulary # <<>>
    /\ Len(Words(vocabulary)) = 0
    /\ last.before > 0
    /\ SpansOf(1) = <<>>

(***************************************************************************)
(* The matcher on one text node (SpecWords).                               *)
(***************************************************************************)
\* the highlight spans among sibling nodes, each with the position (1-based) of
\* its first character in the text content of the siblings
RECURSIVE SpanRuns(_, _)
SpanRuns(kids, off) ==
    IF kids = <<>> THEN {}
    ELSE LET n == Head(kids)
             t == textContent(<<n>>)
         IN  (IF n.kind = "span" THEN {[start |-> off + 1, text |-> t, word |-> n.word]}
              ELSE {})
                 \cup SpanRuns(Tail(kids), off + Len(t))

\* the text of the paragraph before the pass, and the spans the pass left in it
TextBefore == textContent(hist[1].body)

RunsAfter == SpanRuns(hist[2].body[1].kids, 0)

\* position i of text t is outside t or holds a character that is no word character
NonWordAt(t, i) == i < 1 \/ i > Len(t) \/ ~IsWordChar(t[i])

\* term w occurs at p in t, in any letter case, between two such positions
WholeWordAt(t, p, w) ==
    /\ p + Len(w) - 1 <= Len(t)
    /\ toLowerCase(SubSeq(t, p, p + Len(w) - 1)) = toLowerCase(w)
    /\ NonWordAt(t, p - 1)
    /\ NonWordAt(t, p + Len(w))

\* C11: every highlighted occurrence lies between the start or end of its text
\* node or a character that is no word character, on both sides; so no term is
\* highlighted inside a longer word, and no word is highlighted as its prefix.
C11_WholeWordOnly ==
    Len(hist) = 2
        => \A r \in RunsAfter :
              /\ NonWordAt(TextBefore, r.start - 1)
              /\ NonWordAt(TextBefore, r.start + Len(r.text))

\* C12: every whole-word occurrence of a term, in any letter case, is wrapped in
\* a span; the span's text is the text as written and its data-word is that
\* text lower-cased.
C12_EveryCaseVariantWrapped ==
    Len(hist) = 2
        => /\ \A r \in RunsAfter :
                 /\ r.text = SubSeq(TextBefore, r.start, r.start + Len(r.text) - 1)
                 /\ r.word = toLowerCase(r.text)
           /\ \A i \in 1..Len(Words(vocabulary)), p \in 1..Len(TextBefore) :
                 WholeWordAt(TextBefore, p, Words(vocabulary)[i])
                     => \E r \in RunsAfter :
                           r.start = p /\ Len(r.text) = Len(Words(vocabulary)[i])

(***************************************************************************)
(* The placement of the popover (SpecPlace).                               *)
(***************************************************************************)
Placed == last.op = "place"

Desktop == last.g.windowWidth > 640

Max(a, b) == IF a >= b THEN a ELSE b

\* C13: on a desktop viewport 800 wide with a side panel 320 wide, the popover's
\* right edge is at most 800 - 320 - 8 and its left edge is at least 8, for every
\* anchor and every width the style sheet lets the popover take.
C13_ClampedBesideSidePanel ==
    (Placed /\ last.g.windowWidth = 800 /\ last.g.sidebar = 320)
        => /\ last.at.left2 + 2 * last.g.tip.width <= 2 * (800 - 320 - 8)
           /\ last.at.left2 >= 2 * 8

C13_Witness ==
    /\ Placed /\ last.g.windowWidth = 800 /\ last.g.sidebar = 320
    /\ last.g.rect.left = 700
    /\ last.at.left2 < 2 * last.g.rect.left

C15_CentredOnMobile ==
    (Placed /\ last.g.windowWidth <= 640)
        => /\ last.at.left2 = last.g.windowWidth - last.g.tip.width
           /\ last.at.top2 = last.g.windowHeight - last.g.tip.height

C15_Witness ==
    /\ Placed /\ last.g.windowWidth = 640
    /\ last.g.sidebar = 320
    /\ last.g.rect.left = 700
    /\ last.at.left2 = 640 - last.g.tip.width

\* the geometry in host coordinates: the anchor translated by the offset of the
\* content window, the bounds those of the host window
HostSpace(g) ==
    [g EXCEPT !.rect = [left |-> g.rect.left + g.offset.dx, top |-> g.rect.top + g.offset.dy,
                        bottom |-> g.rect.bottom + g.offset.dy],
              !.viewportHeight = g.windowHeight]

\* C16: the popover is placed from the anchor measured in the content window
\* translated by the content window's offset in the host, with the bounds of
\* the host window.
C16_AnchorInHostSpace == Placed => last.at = placeTooltip(HostSpace(last.g))

(***************************************************************************)
(* The popover's content and the vocabulary store (Spec, SpecStore).       *)
(***************************************************************************)
\* the body a popover for data-word w shows by the vocabulary vocab: the
\* explanation of the first term whose trimmed, lower-cased word is w, the
\* placeholder when there is no such term or it has no explanation
ExpectedBody(vocab, w) ==
    LET hits == {i \in 1..Len(vocab) : toLowerCase(trim(vocab[i].word)) = w}
        first == CHOOSE i \in hits : \A j \in hits : i <= j
    IN  IF hits # {} /\ vocab[first].explanation # "" THEN vocab[first].explanation
        ELSE Placeholder

\* C17: the popover opened by a click on a span with data-word w shows the
\* explanation of the term of the current vocabulary whose normalized word is w,
\* and the placeholder exactly when no such term exists or it has no explanation.
C17_PopoverShowsCurrentTerm ==
    (last.op = "click" /\ host.tooltips # <<>>)
        => host.tooltips[1].body = ExpectedBody(vocabulary, last.word)

RECURSIVE IsSubsequence(_, _)
IsSubsequence(s, t) ==
    IF s = <<>> THEN TRUE
    ELSE IF t = <<>> THEN FALSE
    ELSE IF Head(s) = Head(t) THEN IsSubsequence(Tail(s), Tail(t))
    ELSE IsSubsequence(s, Tail(t))

\* the terms of vocab whose lower-cased word differs from w, in order
OtherTerms(vocab, w) == SelectSeq(vocab, LAMBDA v : toLowerCase(v.word) # w)

\* C18: the engine only removes terms from the vocabulary store: a click changes
\* nothing in it, and after a popover delete for word w the vocabulary is a
\* subsequence of the previous one in which every term whose lower-cased word
\* differs from w is kept as it was.
C18_OnlyRemovals ==
    [][ /\ last'.op \in {"click", "clickOutside", "clickHost"} => vocabulary' = vocabulary
        /\ last'.op = "delete"
            => /\ IsSubsequence(vocabulary', vocabulary)
               /\ OtherTerms(vocabulary', last'.word) = OtherTerms(vocabulary, last'.word)
      ]_vars

C18_Witness ==
    /\ last.op = "delete"
    /\ last.word = <<"a">>
    /\ Len(vocabulary) = 1
    /\ trim(vocabulary[1].word) = <<"B">>
    /\ "a" \notin {SpansOf(1)[i].word[1] : i \in 1..Len(SpansOf(1))}

C20_OutsideClickCloses ==
    last.op \in {"clickOutside", "clickHost"}
        => host.tooltips = <<>> /\ docs[1].tooltips = <<>>

(***************************************************************************)
(* The structure a pass leaves (SpecPass).                                 *)
(***************************************************************************)
\* the elements other than highlight spans, with their nesting and order
RECURSIVE Skeleton(_)
Skeleton(kids) ==
    IF kids = <<>> THEN <<>>
    ELSE LET n == Head(kids) IN
         (IF n.kind = "elem" THEN <<[tag |-> n.tag, kids |-> Skeleton(n.kids)]>> ELSE <<>>)
             \o Skeleton(Tail(kids))

\* C21: a pass, clear or clear then apply, changes text nodes and highlight
\* spans only: the tree of the other elements is the same before and after.
C21_ElementsUntouched ==
    \A i \in 2..Len(hist) : Skeleton(hist[i].body) = Skeleton(hist[i - 1].body)

C21_Witness ==
    /\ Len(hist) >= 2
    /\ hist[2].op = "highlight"
    /\ \E i \in 1..Len(hist[2].body) :
          /\ hist[2].body[i].tag = "DIV"
          /\ Len(querySpans(hist[2].body[i].kids)) = 2

\* every highlight span holds text only
RECURSIVE NoNestedSpan(_)
NoNestedSpan(kids) ==
    \A i \in 1..Len(kids) :
        /\ kids[i].kind = "span" => \A j \in 1..Len(kids[i].kids) : kids[i].kids[j].kind = "text"
        /\ kids[i].kind = "elem" => NoNestedSpan(kids[i].kids)

\* the script and style elements, as they are, in document order
RECURSIVE ScriptsOf(_)
ScriptsOf(kids) ==
    IF kids = <<>> THEN <<>>
    ELSE LET n == Head(kids) IN
         (IF n.kind = "elem" /\ n.tag \in {"SCRIPT", "STYLE"} THEN <<n>>
          ELSE IF n.kind = "elem" THEN ScriptsOf(n.kids)
          ELSE <<>>)
             \o ScriptsOf(Tail(kids))

\* the number of text nodes outside script and style elements
RECURSIVE CountText(_)
CountText(kids) ==
    IF kids = <<>> THEN 0
    ELSE LET n == Head(kids) IN
         (IF n.kind = "text" THEN 1
          ELSE IF n.tag \in {"SCRIPT", "STYLE"} THEN 0
          ELSE CountText(n.kids))
             + CountText(Tail(kids))

\* C24: after any passes no highlight span is inside another and the script and
\* style elements are as they were loaded; the scan of a document without spans
\* yields exactly its text nodes outside script and style.
C24_ScannerSkipsSpansAndScripts ==
    /\ \A i \in 2..Len(hist) :
          /\ NoNestedSpan(hist[i].body)
          /\ ScriptsOf(hist[i].body) = ScriptsOf(hist[1].body)
    /\ (Len(hist) >= 2 /\ hist[2].op = "highlight" /\ Words(vocabulary) # <<>>)
           => hist[2].scanned = CountText(hist[1].body)

C24_Witness ==
    /\ Len(hist) = 3
    /\ hist[2].op = "highlight" /\ hist[3].op = "highlight"
    /\ ScriptsOf(hist[1].body) # <<>>
    /\ querySpans(hist[3].body) # <<>>
    /\ <<"a">> \in NormalizedWords(vocabulary)

(***************************************************************************)
(* The term list and the pattern (SpecWords).                              *)
(***************************************************************************)
\* the term begins and ends with a word character
WordEdged(w) == w # <<>> /\ IsWordChar(w[1]) /\ IsWordChar(w[Len(w)])

\* C22: every metacharacter of a term is escaped in the pattern, so the pattern
\* compiles; a span's text is a term of the list, character for character up
\* to letter case (a term "a." does not match "ab"); and every whole-word
\* occurrence of a term made of word characters is highlighted whatever other
\* terms, matchable or not, the list holds.
C22_MetacharactersLiteral ==
    Len(hist) = 2
        => LET words == Words(vocabulary)
               pat == Pattern(words)
           IN  /\ \A i \in 1..Len(pat) : \A k \in 1..Len(pat[i]) :
                     pat[i][k].ch \in MetaChars => pat[i][k].esc
               /\ \A r \in RunsAfter :
                     \E i \in 1..Len(words) : toLowerCase(r.text) = toLowerCase(words[i])
               /\ \A i \in 1..Len(words), p \in 1..Len(TextBefore) :
                     (WordEdged(words[i]) /\ WholeWordAt(TextBefore, p, words[i]))
                         => \E r \in RunsAfter :
                               r.start <= p /\ p < r.start + Len(r.text)

C22_Witness ==
    /\ Len(hist) = 2
    /\ Words(vocabulary) = <<(<<"a", ".">>), (<<"a", "B">>)>>
    /\ TextBefore = <<"a", "b">>
    /\ RunsAfter = {[start |-> 1, text |-> <<"a", "b">>, word |-> <<"a", "b">>]}

\* the words trimmed, the blank ones dropped, of the words equal up to letter
\* case the first kept
RECURSIVE CanonWords(_)
CanonWords(vocab) ==
    IF vocab = <<>> THEN <<>>
    ELSE LET init == CanonWords(SubSeq(vocab, 1, Len(vocab) - 1))
             w == trim(vocab[Len(vocab)].word)
         IN  IF w = <<>> \/ \E i \in 1..Len(init) : toLowerCase(init[i]) = toLowerCase(w)
             THEN init
             ELSE Append(init, w)

CanonVocab(vocab) == [i \in 1..Len(CanonWords(vocab)) |-> Item(CanonWords(vocab)[i], "")]

\* C23: the pass leaves the document it leaves for the list of the trimmed,
\* non-blank words without duplicates (letter case and surrounding whitespace
\* ignored); no blank and no untrimmed word is among the words of the pattern.
C23_CanonicalTermList ==
    Len(hist) = 2
        => /\ hist[2].body
                 = highlightVocabularyInDocument(FreshDoc(1, hist[1].body),
                                                 CanonVocab(vocabulary)).body
           /\ \A i \in 1..Len(Words(vocabulary)) :
                 /\ Words(vocabulary)[i] # <<>>
                 /\ trim(Words(vocabulary)[i]) = Words(vocabulary)[i]

C23_Witness ==
    /\ Len(hist) = 2
    /\ vocabulary = <<Item(<<" ", "A">>, ""), Item(<<"a">>, "")>>
    /\ TextBefore = <<"a", " ", "A">>
    /\ Cardinality(RunsAfter) = 2

(***************************************************************************)
(* The apply pass, node by node (SpecPass).                                *)
(***************************************************************************)
\* the highlight spans of a tree, each with the position of its first character
\* in the text content of the tree
RECURSIVE DeepRuns(_, _)
DeepRuns(kids, off) ==
    IF kids = <<>> THEN {}
    ELSE LET n == Head(kids)
             t == textContent(<<n>>)
         IN  (IF n.kind = "span" THEN {[start |-> off + 1, len |-> Len(t), word |-> n.word]}
              ELSE IF n.kind = "elem" THEN DeepRuns(n.kids, off)
              ELSE {})
                 \cup DeepRuns(Tail(kids), off + Len(t))

\* the leftmost non-overlapping matches of one text, found position by position
\* from p
RECURSIVE ScanFrom(_, _, _, _)
ScanFrom(text, p, pat, off) ==
    IF p > Len(text) THEN {}
    ELSE LET len == MatchLenAt(text, p, pat) IN
         IF len > 0
         THEN {[start |-> off + p, len |-> len,
                word |-> toLowerCase(SubSeq(text, p, p + len - 1))]}
                  \cup ScanFrom(text, p + len, pat, off)
         ELSE ScanFrom(text, p + 1, pat, off)

\* the matches of every text node outside script and style, each node scanned
\* from its first character
RECURSIVE ExpectedRuns(_, _, _, _)
ExpectedRuns(kids, parentTag, pat, off) ==
    IF kids = <<>> THEN {}
    ELSE LET n == Head(kids)
             t == textContent(<<n>>)
         IN  (IF n.kind = "text"
              THEN IF parentTag \in {"SCRIPT", "STYLE"} THEN {} ELSE ScanFrom(n.text, 1, pat, off)
              ELSE ExpectedRuns(n.kids, n.tag, pat, off))
                 \cup ExpectedRuns(Tail(kids), parentTag, pat, off + Len(t))

\* C25: the first pass over a loaded document keeps its text, leaves every text
\* node without a match as it is, and puts one span around every leftmost
\* non-overlapping match of every text node, each node scanned from its first
\* character whatever the nodes before it held.
C25_ApplyWrapsEveryMatch ==
    (Len(hist) >= 2 /\ hist[2].op = "highlight" /\ Words(vocabulary) # <<>>)
        => LET before == hist[1].body
               after == hist[2].body
               pat == Pattern(Words(vocabulary))
               expected == ExpectedRuns(before, "BODY", pat, 0)
           IN  /\ textContent(after) = textContent(before)
               /\ DeepRuns(after, 0) = expected
               /\ Len(querySpans(after)) = Cardinality(expected)
               /\ expected = {} => after = before
               /\ \A i \in 1..Len(before) :
                     (before[i].kind = "text" /\ ScanFrom(before[i].text, 1, pat, 0) = {})
                         => \E j \in 1..Len(after) : after[j] = before[i]

C25_Witness ==
    /\ Len(hist) >= 2
    /\ hist[2].op = "highlight"
    /\ hist[1].body = <<TextNode(<<"a", " ", "b">>), TextNode(<<"a">>)>>
    /\ Cardinality(DeepRuns(hist[2].body, 0)) = 3

(***************************************************************************)
(* Two clears in succession (SpecStore).                                   *)
(***************************************************************************)
\* the run of the effect that led to this state called clearVocabularyHighlights
\* and nothing after it: the vocabulary has no word to match
ClearedLast == last.op \in {"iframe", "vocabulary"} /\ Words(vocabulary) = <<>>

\* C26: when a run that ended with clearVocabularyHighlights is followed by
\* another such run, the second leaves the content document as the first left
\* it, node for node.
C26_SecondClearNoOp ==
    [][(ClearedLast /\ ClearedLast') => docs'[1] = docs[1]]_vars

C26_Witness ==
    /\ ClearedLast
    /\ hist = MaxPasses
    /\ vocabulary # <<>>
    /\ docs[1].handler # NoHandler
    /\ last.before = 0

(***************************************************************************)
(* The deferred run under fair timers (SpecLive).                          *)
(***************************************************************************)
\* C27: with timers firing fairly, every relocation notification is followed
\* by a deferred run of applyHighlights, and the timers are all spent again and
\* again unless relocations keep arriving for ever.
C27_RelocationLeadsToPass ==
    /\ (last.op = "relocated") ~> (last.op = "timer")
    /\ ([]<>(timers = <<>>)) \/ ([]<>(last.op = "relocated"))

C27_Witness ==
    /\ last.op = "timer"
    /\ last.frame = iframe
    /\ last.scanned > 0
    /\ timers = <<>>
    /\ relocated = <<Closure(vocabulary, iframe)>>

(***************************************************************************)
(* What a run of the reconciler works on (Spec).                           *)
(***************************************************************************)
\* the step that led to this state ran applyHighlights
PassRan == last.op \in {"vocabulary", "iframe", "rendition", "delete", "timer"}

\* C28: every run of the reconciler, the deferred run of a relocation
\* included, works on the document of the content window that is current when
\* it runs.
C28_PassOnCurrentDocument == PassRan => last.frame = iframe

\* C29: after every run of the reconciler that found a document, the deferred
\* run included, the spans of that document are words of the vocabulary current
\* at the run, and the click handler left bound holds that vocabulary.
C29_PassUsesCurrentVocabulary ==
    (PassRan /\ last.frame # NoFrame /\ docs[last.frame].avail = "ok")
        => /\ SpanWords(last.frame) \subseteq NormalizedWords(vocabulary)
           /\ Words(vocabulary) # <<>>
                  => docs[last.frame].handler = Handler(last.frame, vocabulary)

\* C30: a timer that fires was set by the effect instance that is live, not by
\* one that was cleaned up; the relocation listeners on the rendition are the
\* listener of the live instance, if it registered one, and no other.
C30_NoPassAfterCleanup ==
    [][ /\ last'.op = "timer" => Head(timers) = cleanup
        /\ relocated' = IF cleanup' # NoCleanup THEN <<cleanup'>> ELSE <<>>
      ]_vars

(***************************************************************************)
(* Overlapping terms (SpecOrder).                                          *)
(***************************************************************************)
\* the two lists hold the same words once trimmed and lower-cased
SameWords(v, w) == NormalizedWords(v) = NormalizedWords(w)

\* C31: when the store replaces the term list by a list of the same normalized
\* words in another order, the pass leaves the markup the document had.
C31_OrderIndependent ==
    [][SameWords(vocabulary, vocabulary') => docs'[1].body = docs[1].body]_vars

\* the spans of a text run do not overlap, each holds the text at its place (so
\* they stand in document order), and an occurrence of a term made of word
\* characters is either a span or overlapped by a span that starts at or
\* before it
LeftmostNonOverlapping(text, runs, words) ==
    /\ \A r1, r2 \in runs :
          r1 # r2 => \/ r1.start + Len(r1.text) <= r2.start
                     \/ r2.start + Len(r2.text) <= r1.start
    /\ \A r \in runs : r.text = SubSeq(text, r.start, r.start + Len(r.text) - 1)
    /\ \A i \in 1..Len(words), p \in 1..Len(text) :
          (WordEdged(words[i]) /\ WholeWordAt(text, p, words[i]))
              => \E r \in runs : r.start <= p /\ p < r.start + Len(r.text)

\* every span is a whole-word occurrence of a term
SpansAreWholeWords(text, runs, words) ==
    \A r \in runs :
        \E i \in 1..Len(words) :
            Len(words[i]) = Len(r.text) /\ WholeWordAt(text, r.start, words[i])

\* C32: in a text run the spans of one pass do not overlap and stand in
\* document order, each is a whole-word occurrence of a term, and of two
\* occurrences that overlap the one starting leftmost is the span.
C32_LeftmostWholeWordSpans ==
    Len(hist) = 2
        => /\ LeftmostNonOverlapping(TextBefore, RunsAfter, Words(vocabulary))
           /\ SpansAreWholeWords(TextBefore, RunsAfter, Words(vocabulary))

(***************************************************************************)
(* Termination of a run (SpecLoop).                                        *)
(***************************************************************************)
\* C33: a run of highlightVocabularyInDocument ends; the text nodes it works on
\* are those collected before the first replacement and each is taken once;
\* every match the loop consumes moves regex.lastIndex forward.
C33_PassTerminates ==
    /\ <>(last.op = "done")
    /\ [][ /\ last.op # "start"
                => /\ last'.textNodes = last.textNodes
                   /\ last'.node \in {last.node, last.node + 1}
                   /\ last'.node <= Len(last.textNodes) + 1
           /\ (last.op = "exec" /\ last'.op = "exec")
                => last'.regexLastIndex > last.regexLastIndex
         ]_vars

C33_Witness ==
    /\ last.op = "done"
    /\ Len(hist) = 2
    /\ Len(querySpans(hist[1])) = 2
    /\ Len(querySpans(hist[2])) = 2

(***************************************************************************)
(* The popover and its anchor (SpecStore).                                 *)
(***************************************************************************)
\* C34: every popover that is open shows a word that some highlight span of the
\* content document shown carries; a run that removes the spans of the word
\* closes the popover.
C34_PopoverHasAnchor ==
    \A i \in 1..Len(host.tooltips) :
        Shown /\ host.tooltips[i].word \in SpanWords(iframe)

(***************************************************************************)
(* The horizontal clamp (SpecPlace).                                       *)
(***************************************************************************)
Min(a, b) == IF a <= b THEN a ELSE b

\* the largest left that keeps the popover clear of the side panel
MaxLeftOf(g) == g.windowWidth - g.sidebar - 16 - g.tip.width

\* C35: on desktop the left is max(8, min(anchorLeft, viewportWidth -
\* reservedWidth - 16 - popoverWidth)); so it is at least 8 also when the right
\* clamp would put it further left.
C35_LeftMarginWins ==
    (Placed /\ Desktop)
        => /\ last.at.left2 = 2 * Max(8, Min(last.g.rect.left, MaxLeftOf(last.g)))
           /\ last.at.left2 >= 2 * 8

C35_Witness ==
    /\ Placed /\ Desktop
    /\ MaxLeftOf(last.g) < 8
    /\ last.g.rect.left > 8
    /\ last.at.left2 = 2 * 8

(***************************************************************************)
(* The style elements (Spec).                                              *)
(***************************************************************************)
\* C36: after any passes every content document holds at most one style
\* element vocab-style and the host document at most one vocab-style-main; a
\* document that was highlighted holds exactly one.
C36_OneStyleElement ==
    /\ host.styles <= 1
    /\ \A f \in Frames :
          /\ docs[f].styles <= 1
          /\ docs[f].handler # NoHandler => docs[f].styles = 1 /\ host.styles = 1

C36_Witness ==
    /\ iframe = 2
    /\ last.op = "vocabulary"
    /\ last.before > 0
    /\ last.scanned > 0
    /\ docs[1].styles = 1
    /\ docs[2].styles = 1
    /\ host.styles = 1

====
